---- MODULE Spec2Model ----
(***************************************************************************)
(* Model of src/ephemeral_hidden_service/cli.py: the key provisioner       *)
(* (generate_x25519_key_pair, encode_keys) and the control session of      *)
(* start_ephemeral_service, with the daemon's replies and the operator's   *)
(* interrupts (KeyboardInterrupt) as the environment.                      *)
(*                                                                         *)
(* Python str and bytes values are sequences of code points / octets, so   *)
(* that bytes.decode() of ASCII text keeps the sequence and texts and raw   *)
(* bytes can be compared.                                                   *)
(***************************************************************************)
EXTENDS Integers, Sequences, FiniteSets, TLC

VARIABLES
    pc,                   \* position of the main thread in cli.py
    public,               \* --public
    local_port,           \* --local-port
    hidden_service_port,  \* --hidden-service-port
    controller_password,  \* --controller-password
    conn,                 \* control connection: "none", "open", "closed"
    private_key,          \* raw private key bytes, <<>> before generation
    public_key,           \* raw public key bytes, <<>> before generation
    encoded_private_key,  \* cli.py:88 / 92
    auth_config,          \* cli.py:87 / 95
    service_id,           \* response.service_id, NoResponse before the reply
    listing,              \* reply of the list query in progress
    exception,            \* exception propagating out of the function
    exitStatus,           \* process exit status, -1 while running
    log,                  \* everything observable, in order: the connection
                          \* opened, commands sent, replies and failures
                          \* received, lines printed, the close, the exit
    visited,              \* positions the main thread has been at
    interruptedAt         \* positions at which an interrupt was delivered

vars == <<pc, public, local_port, hidden_service_port, controller_password,
          conn, private_key, public_key, encoded_private_key, auth_config,
          service_id, listing, exception, exitStatus, log, visited,
          interruptedAt>>

-----------------------------------------------------------------------------
(* Bounds of the model *)

\* interrupts delivered in one run
MaxInterrupts == 2
\* octets of a byte string given to encode_keys on its own
MaxRawLen == 5
\* octets of a raw key (32 for x25519)
KeyLen == 1

-----------------------------------------------------------------------------
(* Program constants and input domains *)

DEFAULT_HIDDEN_SERVICE_PORT == 80

LocalPorts == {8080}
HiddenServicePorts == {DEFAULT_HIDDEN_SERVICE_PORT, 8080}
\* "" (no credential) and "pw"
Passwords == {<< >>, <<112, 119>>}

\* octet values a raw key is drawn from: 0x3A, 0xC5
Octets == {58, 197}

\* the octet strings of KeyLen octets
RawKeys == [1 .. KeyLen -> Octets]

\* identifiers the daemon may answer a create with: "a", "b", and "" (none)
OnionIds == {<<97>>, <<98>>}
NoResponse == <<0>>

-----------------------------------------------------------------------------
(* base64.b32encode(keybytes).decode().rstrip("=") *)

\* "ABCDEFGHIJKLMNOPQRSTUVWXYZ234567"
B32Alphabet ==
    <<65, 66, 67, 68, 69, 70, 71, 72, 73, 74, 75, 76, 77, 78, 79, 80,
      81, 82, 83, 84, 85, 86, 87, 88, 89, 90, 50, 51, 52, 53, 54, 55>>

\* "="
PadChar == 61

Pow2(n) == 2 ^ n

\* as BitAt, taking the bits of an octet from the least significant end
BitAtLsbFirst(bytes, i) ==
    IF i > 8 * Len(bytes) THEN 0
    ELSE (bytes[((i - 1) \div 8) + 1] \div Pow2((i - 1) % 8)) % 2

\* bit i (1 = most significant of the first octet) of the octet string,
\* 0 past its end
BitAt(bytes, i) ==
    IF i > 8 * Len(bytes) THEN 0
    ELSE (bytes[((i - 1) \div 8) + 1] \div Pow2(7 - ((i - 1) % 8))) % 2

\* value of the k-th group of 5 bits
Quintet(bytes, k) ==
    BitAt(bytes, 5 * k - 4) * 16 + BitAt(bytes, 5 * k - 3) * 8
    + BitAt(bytes, 5 * k - 2) * 4 + BitAt(bytes, 5 * k - 1) * 2
    + BitAt(bytes, 5 * k)

b32encode(bytes) ==
    LET nchars == (8 * Len(bytes) + 4) \div 5
        total  == ((nchars + 7) \div 8) * 8
    IN  [k \in 1 .. total |->
            IF k <= nchars THEN B32Alphabet[Quintet(bytes, k) + 1]
            ELSE PadChar]

RECURSIVE rstrip(_, _)
rstrip(s, ch) ==
    IF Len(s) > 0 /\ s[Len(s)] = ch THEN rstrip(SubSeq(s, 1, Len(s) - 1), ch)
    ELSE s

\* as EncodeOne, without the rstrip
EncodeOnePadded(keybytes) == b32encode(keybytes)

EncodeOne(keybytes) == rstrip(b32encode(keybytes), PadChar)

\* <<encoded private key, encoded public key>>
encode_keys(priv, pub) == <<EncodeOne(priv), EncodeOne(pub)>>

\* the pairs generate_x25519_key_pair can return: the public key is a
\* function of the private one that never has the same octets
generate_x25519_key_pair ==
    {<<priv, pub>> \in RawKeys \X RawKeys : pub # priv}

-----------------------------------------------------------------------------
(* The observable trace *)

Event(ev, cmd, args) == [ev |-> ev, cmd |-> cmd, args |-> args]

\* positions in l of the events of kind ev named cmd
Places(l, ev, cmd) == {i \in 1 .. Len(l) : l[i].ev = ev /\ l[i].cmd = cmd}

Count(l, ev, cmd) == Cardinality(Places(l, ev, cmd))

\* dict | dict: the right operand wins
DictMerge(a, b) == b @@ a

-----------------------------------------------------------------------------
(* Positions of start_ephemeral_service *)

\* the try block, cli.py:118-123
TryBody == {"print_prompt", "loop", "sleep"}

\* the body of the with statement, cli.py:84-128
WithBody ==
    {"authenticate", "auth_reply", "build", "create", "create_reply",
     "assert_id", "print_created", "print_address", "print_key",
     "list1", "list1_reply", "assert_listed", "print_prompt", "loop",
     "sleep", "handler", "remove", "remove_reply", "list2", "list2_reply",
     "assert_absent"}

\* outside the with statement: before the connection, after its release
Outside == {"start", "print_terminated"}

Goto(p) == pc' = p /\ visited' = visited \cup {p}

\* an exception raised in the body of the with statement leaves through
\* Controller.__exit__
Raise(exc) == exception' = exc /\ Goto("with_exit")

Inputs == <<public, local_port, hidden_service_port, controller_password>>
Keys == <<private_key, public_key, encoded_private_key, auth_config>>
Env == <<interruptedAt>>

Init ==
    /\ pc = "start"
    /\ public \in BOOLEAN
    /\ local_port \in LocalPorts
    /\ hidden_service_port \in HiddenServicePorts
    /\ controller_password \in Passwords
    /\ conn = "none"
    /\ private_key = << >>
    /\ public_key = << >>
    /\ encoded_private_key = << >>
    /\ auth_config = << >>
    /\ service_id = NoResponse
    /\ listing = {}
    /\ exception = "none"
    /\ exitStatus = -1
    /\ log = << >>
    /\ visited = {"start"}
    /\ interruptedAt = << >>

-----------------------------------------------------------------------------
(* cli.py:83-84: connect and authenticate *)

\* Controller.from_port() returns and the with statement is entered
Connect ==
    /\ pc = "start"
    /\ conn' = "open"
    /\ log' = Append(log, Event("open", "connect", << >>))
    /\ Goto("authenticate")
    /\ UNCHANGED <<Inputs, Keys, Env, service_id, listing, exception,
                   exitStatus>>

\* Controller.from_port() raises: no connection, nothing to release
ConnectFailed ==
    /\ pc = "start"
    /\ exception' = "SocketError"
    /\ Goto("end")
    /\ UNCHANGED <<Inputs, Keys, Env, conn, service_id, listing, exitStatus,
                   log>>

SendAuthenticate ==
    /\ pc = "authenticate"
    /\ log' = Append(log, Event("send", "authenticate",
                                [password |-> controller_password]))
    /\ Goto("auth_reply")
    /\ UNCHANGED <<Inputs, Keys, Env, conn, service_id, listing, exception,
                   exitStatus>>

AuthAccepted ==
    /\ pc = "auth_reply"
    /\ log' = Append(log, Event("recv", "authenticate", << >>))
    /\ Goto("build")
    /\ UNCHANGED <<Inputs, Keys, Env, conn, service_id, listing, exception,
                   exitStatus>>

\* as AuthRejected, had the failure been swallowed
AuthRejectedIgnored ==
    /\ pc = "auth_reply"
    /\ log' = Append(log, Event("fail", "authenticate", << >>))
    /\ Goto("build")
    /\ UNCHANGED <<Inputs, Keys, Env, conn, service_id, listing, exception,
                   exitStatus>>

AuthRejected ==
    /\ pc = "auth_reply"
    /\ log' = Append(log, Event("fail", "authenticate", << >>))
    /\ Raise("AuthenticationFailure")
    /\ UNCHANGED <<Inputs, Keys, Env, conn, service_id, listing, exitStatus>>

-----------------------------------------------------------------------------
(* cli.py:86-104: the key pair and the create command *)

\* as AuthConfig, without the public branch
AuthConfigAlways(is_public, encoded_public_key) ==
    [client_auth_v3 |-> encoded_public_key]

\* cli.py:87 / 95
AuthConfig(is_public, encoded_public_key) ==
    IF is_public THEN << >> ELSE [client_auth_v3 |-> encoded_public_key]

\* as ClientAuthKey, with the two halves mixed up
ClientAuthKeySwapped(encoded) == encoded[1]

\* the half of encode_keys' result that cli.py:95 puts in the request
ClientAuthKey(encoded) == encoded[2]

BuildRequest ==
    /\ pc = "build"
    /\ IF public
       THEN /\ auth_config' = AuthConfig(public, << >>)
            /\ encoded_private_key' = << >>
            /\ UNCHANGED <<private_key, public_key>>
       ELSE \E pair \in generate_x25519_key_pair :
                LET encoded == encode_keys(pair[1], pair[2])
                IN  /\ private_key' = pair[1]
                    /\ public_key' = pair[2]
                    /\ encoded_private_key' = encoded[1]
                    /\ auth_config' = AuthConfig(public, ClientAuthKey(encoded))
    /\ Goto("create")
    /\ UNCHANGED <<Inputs, Env, conn, service_id, listing, exception,
                   exitStatus, log>>

\* as hidden_service_configuration, with the mapping the wrong way round
hidden_service_configuration_swapped ==
    DictMerge([ports |-> (local_port :> hidden_service_port),
               await_publication |-> TRUE],
              auth_config)

hidden_service_configuration ==
    DictMerge([ports |-> (hidden_service_port :> local_port),
               await_publication |-> TRUE],
              auth_config)

SendCreate ==
    /\ pc = "create"
    /\ log' = Append(log, Event("send", "create",
                                hidden_service_configuration))
    /\ Goto("create_reply")
    /\ UNCHANGED <<Inputs, Keys, Env, conn, service_id, listing, exception,
                   exitStatus>>

\* the reply carries an identifier, or none ("")
CreateReply ==
    /\ pc = "create_reply"
    /\ \E id \in OnionIds \cup {<< >>} :
          /\ service_id' = id
          /\ log' = Append(log, Event("recv", "create", id))
    /\ Goto("assert_id")
    /\ UNCHANGED <<Inputs, Keys, Env, conn, listing, exception, exitStatus>>

\* as CreateFailed, with the command tried again
CreateFailedRetried ==
    /\ pc = "create_reply"
    /\ log' = Append(log, Event("fail", "create", << >>))
    /\ Goto("create")
    /\ UNCHANGED <<Inputs, Keys, Env, conn, service_id, listing, exception,
                   exitStatus>>

CreateFailed ==
    /\ pc = "create_reply"
    /\ log' = Append(log, Event("fail", "create", << >>))
    /\ Raise("ControllerError")
    /\ UNCHANGED <<Inputs, Keys, Env, conn, service_id, listing, exitStatus>>

\* as AssertServiceId, with the assertion compiled out
AssertServiceIdSkipped ==
    /\ pc = "assert_id"
    /\ Goto("print_created")
    /\ UNCHANGED <<Inputs, Keys, Env, conn, service_id, listing, exception,
                   exitStatus, log>>

\* cli.py:106
AssertServiceId ==
    /\ pc = "assert_id"
    /\ IF service_id # << >>
       THEN Goto("print_created") /\ UNCHANGED exception
       ELSE Raise("AssertionError")
    /\ UNCHANGED <<Inputs, Keys, Env, conn, service_id, listing, exitStatus,
                   log>>

-----------------------------------------------------------------------------
(* cli.py:108-117: the status lines and the list query *)

Others == <<Inputs, Keys, Env, conn, service_id, listing, exception,
            exitStatus>>

PrintCreated ==
    /\ pc = "print_created"
    /\ log' = Append(log, Event("print", "created", << >>))
    /\ Goto("print_address")
    /\ UNCHANGED Others

\* localhost:{local_port} is exposed at {service_id}.onion:{hidden_service_port}
AddressLine ==
    [local_port |-> local_port, service_id |-> service_id,
     hidden_service_port |-> hidden_service_port]

PrintAddress ==
    /\ pc = "print_address"
    /\ log' = Append(log, Event("print", "address", AddressLine))
    /\ Goto("print_key")
    /\ UNCHANGED Others

\* as PrintKey, without the test of the mode
PrintKeyAlways ==
    /\ pc = "print_key"
    /\ log' = Append(log, Event("print", "key", encoded_private_key))
    /\ Goto("list1")
    /\ UNCHANGED Others

\* cli.py:114-115
PrintKey ==
    /\ pc = "print_key"
    /\ IF ~public
       THEN log' = Append(log, Event("print", "key", encoded_private_key))
       ELSE UNCHANGED log
    /\ Goto("list1")
    /\ UNCHANGED Others

SendList1 ==
    /\ pc = "list1"
    /\ log' = Append(log, Event("send", "list", << >>))
    /\ Goto("list1_reply")
    /\ UNCHANGED Others

\* the daemon answers with any set of identifiers
List1Reply ==
    /\ pc = "list1_reply"
    /\ \E l \in SUBSET OnionIds :
          /\ listing' = l
          /\ log' = Append(log, Event("recv", "list", l))
    /\ Goto("assert_listed")
    /\ UNCHANGED <<Inputs, Keys, Env, conn, service_id, exception, exitStatus>>

List1Failed ==
    /\ pc = "list1_reply"
    /\ log' = Append(log, Event("fail", "list", << >>))
    /\ Raise("ControllerError")
    /\ UNCHANGED <<Inputs, Keys, Env, conn, service_id, listing, exitStatus>>

\* as AssertListed, with the assertion compiled out
AssertListedSkipped ==
    /\ pc = "assert_listed"
    /\ Goto("print_prompt")
    /\ UNCHANGED <<Inputs, Keys, Env, conn, service_id, listing, exception,
                   exitStatus, log>>

\* cli.py:117
AssertListed ==
    /\ pc = "assert_listed"
    /\ IF service_id \in listing
       THEN Goto("print_prompt") /\ UNCHANGED exception
       ELSE Raise("AssertionError")
    /\ UNCHANGED <<Inputs, Keys, Env, conn, service_id, listing, exitStatus,
                   log>>

-----------------------------------------------------------------------------
(* cli.py:118-125: the wait and the interrupt handler *)

PrintPrompt ==
    /\ pc = "print_prompt"
    /\ log' = Append(log, Event("print", "prompt", << >>))
    /\ Goto("loop")
    /\ UNCHANGED Others

\* cli.py:121: while True, into sleep(1000)
Loop ==
    /\ pc = "loop"
    /\ Goto("sleep")
    /\ UNCHANGED <<Others, log>>

\* as Sleep, had the loop ended when the sleep returns
SleepTimesOut ==
    /\ pc = "sleep"
    /\ Goto("remove")
    /\ UNCHANGED <<Others, log>>

\* cli.py:123: sleep(1000) returns, back to the head of the loop
Sleep ==
    /\ pc = "sleep"
    /\ Goto("loop")
    /\ UNCHANGED <<Others, log>>

\* cli.py:124-125
HandleInterrupt ==
    /\ pc = "handler"
    /\ log' = Append(log, Event("print", "interrupted", << >>))
    /\ Goto("remove")
    /\ UNCHANGED Others

-----------------------------------------------------------------------------
(* cli.py:127-129: removal, release of the connection, exit *)

\* as RemoveCommand, naming no identifier
RemoveCommandUnnamed(id) == Event("send", "remove", [service_id |-> << >>])

RemoveCommand(id) == Event("send", "remove", [service_id |-> id])

SendRemove ==
    /\ pc = "remove"
    /\ log' = Append(log, RemoveCommand(service_id))
    /\ Goto("remove_reply")
    /\ UNCHANGED Others

\* the call returns (its result is not looked at)
RemoveReply ==
    /\ pc = "remove_reply"
    /\ log' = Append(log, Event("recv", "remove", << >>))
    /\ Goto("list2")
    /\ UNCHANGED Others

RemoveFailed ==
    /\ pc = "remove_reply"
    /\ log' = Append(log, Event("fail", "remove", << >>))
    /\ Raise("ControllerError")
    /\ UNCHANGED <<Inputs, Keys, Env, conn, service_id, listing, exitStatus>>

SendList2 ==
    /\ pc = "list2"
    /\ log' = Append(log, Event("send", "list", << >>))
    /\ Goto("list2_reply")
    /\ UNCHANGED Others

List2Reply ==
    /\ pc = "list2_reply"
    /\ \E l \in SUBSET OnionIds :
          /\ listing' = l
          /\ log' = Append(log, Event("recv", "list", l))
    /\ Goto("assert_absent")
    /\ UNCHANGED <<Inputs, Keys, Env, conn, service_id, exception, exitStatus>>

List2Failed ==
    /\ pc = "list2_reply"
    /\ log' = Append(log, Event("fail", "list", << >>))
    /\ Raise("ControllerError")
    /\ UNCHANGED <<Inputs, Keys, Env, conn, service_id, listing, exitStatus>>

\* as AssertAbsent, with the assertion compiled out
AssertAbsentSkipped ==
    /\ pc = "assert_absent"
    /\ Goto("with_exit")
    /\ UNCHANGED <<Inputs, Keys, Env, conn, service_id, listing, exception,
                   exitStatus, log>>

\* cli.py:128
AssertAbsent ==
    /\ pc = "assert_absent"
    /\ IF service_id \notin listing
       THEN Goto("with_exit") /\ UNCHANGED exception
       ELSE Raise("AssertionError")
    /\ UNCHANGED <<Inputs, Keys, Env, conn, service_id, listing, exitStatus,
                   log>>

\* as WithExit, had the close been the last statement of the body instead of
\* the with statement's exit: an exception skips it
WithExitOnSuccessOnly ==
    /\ pc = "with_exit"
    /\ IF exception = "none"
       THEN /\ conn' = "closed"
            /\ log' = Append(log, Event("close", "close", << >>))
       ELSE UNCHANGED <<conn, log>>
    /\ Goto(IF exception = "none" THEN "print_terminated" ELSE "end")
    /\ UNCHANGED <<Inputs, Keys, Env, service_id, listing, exception,
                   exitStatus>>

\* as WithExit, had the termination line been printed on every way out
WithExitThenPrint ==
    /\ pc = "with_exit"
    /\ conn' = "closed"
    /\ log' = Append(log, Event("close", "close", << >>))
    /\ Goto("print_terminated")
    /\ UNCHANGED <<Inputs, Keys, Env, service_id, listing, exception,
                   exitStatus>>

\* Controller.__exit__: close(), on the normal and the exceptional way out;
\* it returns None, so a pending exception goes on
WithExit ==
    /\ pc = "with_exit"
    /\ conn' = "closed"
    /\ log' = Append(log, Event("close", "close", << >>))
    /\ Goto(IF exception = "none" THEN "print_terminated" ELSE "end")
    /\ UNCHANGED <<Inputs, Keys, Env, service_id, listing, exception,
                   exitStatus>>

\* cli.py:129
PrintTerminated ==
    /\ pc = "print_terminated"
    /\ log' = Append(log, Event("print", "terminated", << >>))
    /\ Goto("end")
    /\ UNCHANGED Others

\* cli.py:132-133: the command returns (status 0) or an exception leaves it
\* (status 1)
ExitStatusOf(exc) == IF exc = "none" THEN 0 ELSE 1

Exit ==
    /\ pc = "end"
    /\ exitStatus' = ExitStatusOf(exception)
    /\ log' = Append(log, Event("exit", "exit", ExitStatusOf(exception)))
    /\ Goto("exited")
    /\ UNCHANGED <<Inputs, Keys, Env, conn, service_id, listing, exception>>

-----------------------------------------------------------------------------
(* KeyboardInterrupt *)

\* as OnInterrupt, had the except clause covered the teardown as well
OnInterruptReentrant(p) ==
    IF p \in TryBody \cup {"remove", "remove_reply", "list2", "list2_reply",
                           "assert_absent"}
    THEN [pc |-> "handler", exc |-> "none"]
    ELSE IF p \in WithBody THEN [pc |-> "with_exit", exc |-> "KeyboardInterrupt"]
    ELSE [pc |-> "end", exc |-> "KeyboardInterrupt"]

\* as OnInterrupt, had the try block begun at the top of the with body
OnInterruptWholeBody(p) ==
    IF p \in WithBody \ {"handler", "remove", "remove_reply", "list2",
                          "list2_reply", "assert_absent"}
    THEN [pc |-> "handler", exc |-> "none"]
    ELSE IF p \in WithBody THEN [pc |-> "with_exit", exc |-> "KeyboardInterrupt"]
    ELSE [pc |-> "end", exc |-> "KeyboardInterrupt"]

\* where a KeyboardInterrupt raised at position p takes the main thread, and
\* whether it goes on as a pending exception: the except clause of
\* cli.py:124 covers the try block only
OnInterrupt(p) ==
    IF p \in TryBody THEN [pc |-> "handler", exc |-> "none"]
    ELSE IF p \in WithBody THEN [pc |-> "with_exit", exc |-> "KeyboardInterrupt"]
    ELSE [pc |-> "end", exc |-> "KeyboardInterrupt"]

\* the operator's interrupt, at any position of the function's code
Interrupt ==
    /\ pc \in WithBody \cup Outside
    /\ Len(interruptedAt) < MaxInterrupts
    /\ interruptedAt' = Append(interruptedAt, pc)
    /\ exception' = OnInterrupt(pc).exc
    /\ Goto(OnInterrupt(pc).pc)
    /\ UNCHANGED <<Inputs, Keys, conn, service_id, listing, exitStatus, log>>

Next ==
    \/ Connect \/ ConnectFailed
    \/ SendAuthenticate \/ AuthAccepted \/ AuthRejected
    \/ BuildRequest \/ SendCreate \/ CreateReply \/ CreateFailed
    \/ AssertServiceId
    \/ PrintCreated \/ PrintAddress \/ PrintKey
    \/ SendList1 \/ List1Reply \/ List1Failed \/ AssertListed
    \/ PrintPrompt \/ Loop \/ Sleep \/ HandleInterrupt
    \/ SendRemove \/ RemoveReply \/ RemoveFailed
    \/ SendList2 \/ List2Reply \/ List2Failed \/ AssertAbsent
    \/ WithExit \/ PrintTerminated \/ Exit
    \/ Interrupt

Spec == Init /\ [][Next]_vars

-----------------------------------------------------------------------------
(* encode_keys on its own, cli.py:26-42: the raw bytes of the two keys are   *)
(* any octet strings of up to MaxRawLen octets                               *)

RawStrings == UNION {[1 .. n -> Octets] : n \in 0 .. MaxRawLen}

InitEnc ==
    /\ pc = "encode_keys"
    /\ private_key \in RawStrings
    /\ public_key \in RawStrings
    /\ public = FALSE
    /\ local_port \in LocalPorts
    /\ hidden_service_port = DEFAULT_HIDDEN_SERVICE_PORT
    /\ controller_password = << >>
    /\ conn = "none"
    /\ encoded_private_key = << >>
    /\ auth_config = << >>
    /\ service_id = NoResponse
    /\ listing = {}
    /\ exception = "none"
    /\ exitStatus = -1
    /\ log = << >>
    /\ visited = {"encode_keys"}
    /\ interruptedAt = << >>

\* a call of encode_keys returns the two texts
EncodeKeys ==
    /\ pc = "encode_keys"
    /\ log' = Append(log, Event("return", "encode_keys",
                                encode_keys(private_key, public_key)))
    /\ Goto("encoded")
    /\ UNCHANGED Others

\* a second call on the same two keys
EncodeKeysAgain ==
    /\ pc = "encoded"
    /\ log' = Append(log, Event("return", "encode_keys",
                                encode_keys(private_key, public_key)))
    /\ Goto("encoded_again")
    /\ UNCHANGED Others

NextEnc == EncodeKeys \/ EncodeKeysAgain

SpecEnc == InitEnc /\ [][NextEnc]_vars

-----------------------------------------------------------------------------
(* Properties *)

CreateReplies == {log[i].args : i \in Places(log, "recv", "create")}
\* the replies to the list queries, in order
ListReplies ==
    LET replies == SelectSeq(log, LAMBDA e : e.ev = "recv" /\ e.cmd = "list")
    IN  [i \in 1 .. Len(replies) |-> replies[i].args]
Opened == Count(log, "open", "connect") > 0
Exited == pc = "exited"

\* the position of the only event of that kind and name
PlaceOf(ev, cmd) == CHOOSE i \in Places(log, ev, cmd) : TRUE

\* C1: once the process has ended, a control connection that was opened has
\* been closed, and the close came before the exit, whatever ended the run
\* (clean teardown, rejected authentication, failed assertion, interrupt).
C1_ClosedOnEveryExit ==
    (Exited /\ Opened) =>
        /\ conn = "closed"
        /\ Count(log, "close", "close") = 1
        /\ PlaceOf("close", "close") < PlaceOf("exit", "exit")

\* a run ended by an interrupt that the except clause did not catch
C1_Witness ==
    /\ Exited /\ Opened
    /\ exception = "KeyboardInterrupt"
    /\ conn = "closed"

\* C2: whatever interrupts are delivered, the remove command is sent at most
\* once and the connection is closed at most once.
C2_TeardownAtMostOnce ==
    /\ Count(log, "send", "remove") <= 1
    /\ Count(log, "close", "close") <= 1

\* a second interrupt arrived while the remove command or the list query
\* after it was in progress, and the run has ended
C2_Witness ==
    /\ Exited
    /\ Len(interruptedAt) = 2
    /\ interruptedAt[1] = "sleep"
    /\ interruptedAt[2] \in {"remove_reply", "list2_reply"}
    /\ Count(log, "send", "remove") = 1
    /\ Count(log, "close", "close") = 1

\* the session's states of the design, read off the positions visited
ServiceConfirmed == "print_prompt" \in visited
WaitEntered == "sleep" \in visited
RemoveSent == Count(log, "send", "remove") > 0
\* an interrupt was delivered in the try block, where the except clause
\* catches it
InterruptedInWait == \E i \in 1 .. Len(interruptedAt) : interruptedAt[i] \in TryBody

\* C3: once the list query has confirmed the identifier, the connection is
\* never closed without the remove command having been sent, and the remove
\* command is sent only after an interrupt delivered in the wait.
C3_ClosedOnlyViaRemoving ==
    /\ (ServiceConfirmed /\ conn = "closed") => RemoveSent
    /\ RemoveSent => (ServiceConfirmed /\ InterruptedInWait)

\* the events of Scenario E: one interrupt, delivered in the sleep; the
\* remove command answered; the list query after it without the identifier
ScenarioE ==
    /\ interruptedAt = <<"sleep">>
    /\ Count(log, "recv", "remove") = 1
    /\ Len(ListReplies) = 2
    /\ service_id \notin ListReplies[2]

\* C4: in a run of Scenario E that has ended, the remove command carrying
\* the identifier of the create reply, the second list query, the close and
\* the exit with status 0 happened in this order.
C4_ScenarioE ==
    (Exited /\ ScenarioE) =>
        /\ Count(log, "send", "remove") = 1
        /\ CreateReplies = {log[PlaceOf("send", "remove")].args.service_id}
        /\ Count(log, "send", "list") = 2
        /\ \E i \in Places(log, "send", "list") :
              /\ PlaceOf("send", "remove") < i
              /\ i < PlaceOf("close", "close")
        /\ PlaceOf("close", "close") < PlaceOf("exit", "exit")
        /\ exitStatus = 0
        /\ log[Len(log)] = Event("exit", "exit", 0)

C4_Witness == Exited /\ ScenarioE /\ exitStatus = 0

AuthWasRejected == Count(log, "fail", "authenticate") > 0

\* C5: after a rejected authenticate command no create, list or remove
\* command is sent and no key pair is generated; the run ends with the
\* connection closed and a non-zero status.
C5_AuthRejected ==
    AuthWasRejected =>
        /\ Count(log, "send", "create") = 0
        /\ Count(log, "send", "list") = 0
        /\ Count(log, "send", "remove") = 0
        /\ private_key = << >> /\ public_key = << >>
        /\ pc \in {"with_exit", "end", "exited"}
        /\ pc # "with_exit" => conn = "closed"
        /\ Exited => exitStatus # 0

\* a run in non-public mode (which would have generated keys) ended by the
\* rejection
C5_Witness == AuthWasRejected /\ ~public /\ Exited

\* the create reply carried an identifier and the list query after it came
\* back without it
IdentifierOmitted ==
    /\ Len(ListReplies) >= 1
    /\ service_id # << >>
    /\ service_id \notin ListReplies[1]

\* C6: when the list query after a successful create omits the identifier,
\* the remove command is never sent, the wait is never entered, and the run
\* ends with the connection closed and a non-zero status.
C6_OmittedIdentifier ==
    IdentifierOmitted =>
        /\ ~RemoveSent
        /\ ~ServiceConfirmed /\ ~WaitEntered
        /\ pc \in {"assert_listed", "with_exit", "end", "exited"}
        /\ pc \in {"end", "exited"} => conn = "closed"
        /\ Exited => exitStatus # 0

\* such a run ended by the failed assertion
C6_Witness == IdentifierOmitted /\ Exited /\ exception = "AssertionError"

\* C7: the address line and the key line are printed only after the list
\* query has confirmed the identifier.
C7_PrintedAfterConfirmation ==
    (Count(log, "print", "address") > 0 \/ Count(log, "print", "key") > 0)
        => ServiceConfirmed

\* C8: a create command carries no client_auth_v3 in public mode, and in
\* non-public mode one client_auth_v3, the encoded public key of the pair
\* generated in this run.
C8_ClientAuthParameter ==
    \A i \in Places(log, "send", "create") :
        IF public
        THEN "client_auth_v3" \notin DOMAIN log[i].args
        ELSE /\ "client_auth_v3" \in DOMAIN log[i].args
             /\ public_key \in RawKeys
             /\ log[i].args.client_auth_v3 = EncodeOne(public_key)

C8_Witness == ~public /\ Count(log, "send", "create") = 1

\* the octet strings and texts a command carries
WireTexts(e) ==
    CASE e.cmd = "authenticate" -> {e.args.password}
      [] e.cmd = "create" ->
            IF "client_auth_v3" \in DOMAIN e.args
            THEN {e.args.client_auth_v3} ELSE {}
      [] e.cmd = "remove" -> {e.args.service_id}
      [] OTHER -> {}

KeysGenerated == private_key # << >>

\* C9: no command sent to the daemon carries the generated private key, raw
\* or encoded.
C9_PrivateKeyNotSent ==
    KeysGenerated =>
        \A i \in 1 .. Len(log) :
            log[i].ev = "send" =>
                /\ private_key \notin WireTexts(log[i])
                /\ encoded_private_key \notin WireTexts(log[i])

\* keys were generated and every command of the session has been sent
C9_Witness ==
    /\ KeysGenerated
    /\ Count(log, "send", "create") = 1
    /\ Count(log, "send", "remove") = 1

\* C10: the key line is printed at most once, never in public mode, and in
\* non-public mode a run that has entered the wait has printed it once, with
\* the non-empty encoded private key of the pair whose public half the
\* create command carried.
C10_KeyLine ==
    /\ Count(log, "print", "key") <= 1
    /\ public => Count(log, "print", "key") = 0
    /\ (~public /\ WaitEntered) =>
          /\ Count(log, "print", "key") = 1
          /\ log[PlaceOf("print", "key")].args # << >>
          /\ <<private_key, public_key>> \in generate_x25519_key_pair
          /\ log[PlaceOf("print", "key")].args = EncodeOne(private_key)
          /\ log[PlaceOf("send", "create")].args.client_auth_v3
                = EncodeOne(public_key)

C10_Witness == ~public /\ WaitEntered /\ Count(log, "print", "key") = 1


\* the remove call returned and the list query after it still holds the
\* identifier
StillListed ==
    /\ Count(log, "recv", "remove") = 1
    /\ Len(ListReplies) = 2
    /\ service_id \in ListReplies[2]

\* C11: when the list query after the remove still holds the identifier, the
\* termination line is not printed, and the run ends with the connection
\* closed and a non-zero status.
C11_StillListed ==
    StillListed =>
        /\ Count(log, "print", "terminated") = 0
        /\ pc \in {"assert_absent", "with_exit", "end", "exited"}
        /\ pc \in {"end", "exited"} => conn = "closed"
        /\ Exited => exitStatus # 0

\* such a run ended by the failed assertion of cli.py:128
C11_Witness == StillListed /\ Exited /\ exception = "AssertionError"

\* C12: each of the authenticate, create and remove commands is sent at most
\* once, and the session holds at most one identifier.
C12_NoRetry ==
    /\ Count(log, "send", "authenticate") <= 1
    /\ Count(log, "send", "create") <= 1
    /\ Count(log, "send", "remove") <= 1
    /\ Cardinality(CreateReplies) <= 1
    /\ Count(log, "recv", "create") <= 1

\* a run in which the create command failed, ended
C12_Witness ==
    /\ Exited
    /\ Count(log, "fail", "create") = 1
    /\ Count(log, "send", "create") = 1


\* C13: a session in the wait (the try block of cli.py:118-123) leaves it
\* only by an interrupt: every other step keeps it there, with no remove
\* command sent and the connection as it was; and the remove command is sent
\* only in runs with an interrupt delivered in the wait.
C13_WaitEndsOnlyByInterrupt ==
    /\ [](RemoveSent => InterruptedInWait)
    /\ [][(pc \in TryBody /\ interruptedAt' = interruptedAt) =>
            (pc' \in TryBody /\ conn' = conn /\ ~RemoveSent')]_vars

\* sleep(1000) has returned and the loop goes on, no interrupt so far
C13_Witness ==
    /\ pc = "loop"
    /\ "sleep" \in visited
    /\ interruptedAt = << >>
    /\ conn = "open"


\* the names of the commands sent, in order
CommandsSent ==
    LET sent == SelectSeq(log, LAMBDA e : e.ev = "send")
    IN  [i \in 1 .. Len(sent) |-> sent[i].cmd]

Protocol == <<"authenticate", "create", "list", "remove", "list">>

\* some event of kind ev named cmd lies before place i of the log
Before(i, ev, cmd) == \E j \in Places(log, ev, cmd) : j < i

\* C14: the commands sent are a prefix of authenticate, create, list,
\* remove, list; create, list and remove come after the authentication was
\* accepted, list after a create reply with a non-empty identifier, and the
\* remove command carries that identifier.
C14_CommandOrder ==
    /\ Len(CommandsSent) <= Len(Protocol)
    /\ CommandsSent = SubSeq(Protocol, 1, Len(CommandsSent))
    /\ \A i \in 1 .. Len(log) :
          log[i].ev = "send" =>
             /\ log[i].cmd # "authenticate" => Before(i, "recv", "authenticate")
             /\ log[i].cmd = "list" =>
                   \E j \in Places(log, "recv", "create") :
                       j < i /\ log[j].args # << >>
             /\ log[i].cmd = "remove" =>
                   /\ log[i].args.service_id # << >>
                   /\ CreateReplies = {log[i].args.service_id}

\* all five commands have been sent
C14_Witness == CommandsSent = Protocol

\* C15: a create command carries await_publication = True and one port
\* mapping, hidden-service port to local port; the address line names these
\* two ports and the identifier of the create reply.
C15_RequestAndAddressLine ==
    /\ \A i \in Places(log, "send", "create") :
          /\ log[i].args.await_publication = TRUE
          /\ DOMAIN log[i].args.ports = {hidden_service_port}
          /\ log[i].args.ports[hidden_service_port] = local_port
    /\ \A i \in Places(log, "print", "address") :
          /\ Before(i, "send", "create")
          /\ log[i].args.local_port = local_port
          /\ log[i].args.hidden_service_port = hidden_service_port
          /\ CreateReplies = {log[i].args.service_id}

\* Scenario A: local port 8080, service port 80, public, address printed
C15_Witness ==
    /\ public /\ local_port = 8080 /\ hidden_service_port = 80
    /\ Count(log, "print", "address") = 1


\* the positions of cli.py:84-117, before the try block
BeforeWait == WithBody \ (TryBody \cup {"handler", "remove", "remove_reply",
                                       "list2", "list2_reply",
                                       "assert_absent"})

InterruptedBeforeWait ==
    Len(interruptedAt) >= 1 /\ interruptedAt[1] \in BeforeWait

\* C18: an interrupt delivered before the wait begins (cli.py:84-117) ends
\* the run with the connection closed and a non-zero status, and no remove
\* command is sent, also when the create reply had brought an identifier.
C18_InterruptBeforeWait ==
    InterruptedBeforeWait =>
        /\ ~RemoveSent
        /\ ~ServiceConfirmed
        /\ pc \in {"with_exit", "end", "exited"}
        /\ pc \in {"end", "exited"} => conn = "closed"
        /\ Exited => (exitStatus # 0 /\ exception = "KeyboardInterrupt")

\* a run interrupted after the create reply had brought an identifier, ended
C18_Witness ==
    /\ InterruptedBeforeWait
    /\ interruptedAt[1] \in {"print_created", "print_address", "print_key",
                             "list1", "list1_reply", "assert_listed"}
    /\ service_id \in OnionIds
    /\ Exited

\* C19: the termination line is printed only after the remove call has
\* returned, the list query after it has come back without the identifier
\* and the connection has been closed, and only in a run without error.
C19_TerminatedLine ==
    \A i \in Places(log, "print", "terminated") :
        /\ Count(log, "recv", "remove") = 1
        /\ Len(ListReplies) = 2
        /\ service_id \notin ListReplies[2]
        /\ Before(i, "close", "close")
        /\ conn = "closed"
        /\ exception = "none"
        /\ Count(log, "fail", "authenticate") + Count(log, "fail", "create")
             + Count(log, "fail", "list") + Count(log, "fail", "remove") = 0
        /\ Exited => exitStatus = 0

C19_Witness == Count(log, "print", "terminated") = 1 /\ Exited

-----------------------------------------------------------------------------
(* Properties of encode_keys, under SpecEnc *)

\* the value of a character of the upper-case RFC 4648 alphabet, -1 for
\* any other character
B32Value(c) ==
    IF c \in 65 .. 90 THEN c - 65
    ELSE IF c \in 50 .. 55 THEN c - 50 + 26
    ELSE -1

\* the text with '=' appended up to the next multiple of 8 characters
RestorePadding(t) == t \o [i \in 1 .. ((8 - (Len(t) % 8)) % 8) |-> 61]

Invalid == <<-1>>

\* RFC 4648 base-32 decoding of a padded text; Invalid for a wrong length,
\* a wrong number of '=' or a character outside the alphabet
b32decode(p) ==
    LET body   == rstrip(p, 61)
        pads   == Len(p) - Len(body)
        nbytes == (5 * Len(body)) \div 8
        bit(i) == (B32Value(body[((i - 1) \div 5) + 1])
                      \div Pow2(4 - ((i - 1) % 5))) % 2
    IN  IF \/ Len(p) % 8 # 0
           \/ pads \notin {0, 1, 3, 4, 6}
           \/ \E k \in 1 .. Len(body) : B32Value(body[k]) = -1
        THEN Invalid
        ELSE [j \in 1 .. nbytes |->
                 bit(8 * j - 7) * 128 + bit(8 * j - 6) * 64
                 + bit(8 * j - 5) * 32 + bit(8 * j - 4) * 16
                 + bit(8 * j - 3) * 8 + bit(8 * j - 2) * 4
                 + bit(8 * j - 1) * 2 + bit(8 * j)]

\* what the calls of encode_keys returned, in order
Returned ==
    LET calls == SelectSeq(log, LAMBDA e : e.ev = "return")
    IN  [i \in 1 .. Len(calls) |-> calls[i].args]

\* C16: each text encode_keys returns, with its padding restored from its
\* length, decodes to the raw bytes it was made from; and two calls on the
\* same keys return the same texts.
C16_RoundTrip ==
    /\ \A i \in 1 .. Len(Returned) :
          /\ b32decode(RestorePadding(Returned[i][1])) = private_key
          /\ b32decode(RestorePadding(Returned[i][2])) = public_key
    /\ \A i, j \in 1 .. Len(Returned) : Returned[i] = Returned[j]

\* two calls made, on byte strings whose encodings need different padding
C16_Witness ==
    /\ Len(Returned) = 2
    /\ Len(private_key) = 2
    /\ Len(public_key) = 3
    /\ Len(Returned[1][1]) = 4
    /\ Len(Returned[1][2]) = 5

\* C17: the texts encode_keys returns hold no '=' and only characters of
\* A-Z and 2-7.
C17_Alphabet ==
    \A i \in 1 .. Len(Returned) :
        \A h \in 1 .. 2 :
            \A k \in 1 .. Len(Returned[i][h]) :
                /\ Returned[i][h][k] # 61
                /\ Returned[i][h][k] \in (65 .. 90) \cup (50 .. 55)

\* texts returned for byte strings whose padded encodings end in '='
C17_Witness ==
    /\ Len(Returned) >= 1
    /\ Len(private_key) = 1
    /\ Len(public_key) = 4
    /\ Len(Returned[1][1]) = 2
    /\ Len(Returned[1][2]) = 7

====
